---- MODULE Spec2Model ----
(***************************************************************************)
(* Model of scripts/generate_monsters.py: eight sprite generators that     *)
(* fill a body dict and a body_set, add detail pixels, call draw_outline,  *)
(* merge the body over the outline and rasterise with make_sprite.         *)
(*                                                                         *)
(* A dict {(x,y): color} is a function whose domain is its key set; a      *)
(* coordinate is the tuple <<x, y>>; a color is its RGBA tuple.            *)
(***************************************************************************)
EXTENDS Integers, Sequences, FiniteSets, TLC

VARIABLES k, pc, pass, y, x, i, body, body_set, fill, overlay,
          todo, outlined, pixels, img

vars == <<k, pc, pass, y, x, i, body, body_set, fill, overlay,
          todo, outlined, pixels, img>>

----------------------------------------------------------------------------
(* Palette and canvas *)

C ==
  [transparent |-> <<0, 0, 0, 0>>,
   black       |-> <<0, 0, 0, 255>>,
   dark_bg     |-> <<30, 30, 30, 255>>,
   red         |-> <<244, 71, 71, 255>>,
   dark_red    |-> <<180, 40, 40, 255>>,
   orange      |-> <<206, 145, 120, 255>>,
   yellow      |-> <<220, 220, 170, 255>>,
   green       |-> <<106, 153, 85, 255>>,
   dark_green  |-> <<60, 100, 50, 255>>,
   light_green |-> <<181, 206, 168, 255>>,
   blue        |-> <<86, 156, 214, 255>>,
   dark_blue   |-> <<50, 100, 160, 255>>,
   light_blue  |-> <<156, 220, 254, 255>>,
   purple      |-> <<197, 134, 192, 255>>,
   dark_purple |-> <<130, 80, 130, 255>>,
   magenta     |-> <<190, 60, 160, 255>>,
   white       |-> <<212, 212, 212, 255>>,
   gray        |-> <<128, 128, 128, 255>>,
   dark_gray   |-> <<80, 80, 80, 255>>,
   brown       |-> <<150, 100, 60, 255>>,
   dark_brown  |-> <<100, 65, 40, 255>>,
   cyan        |-> <<78, 201, 176, 255>>,
   dark_cyan   |-> <<50, 140, 120, 255>>]

T == C.transparent

B == C.black

Size == 32

InBounds(c) == 0 <= c[1] /\ c[1] < Size /\ 0 <= c[2] /\ c[2] < Size

Canvas == (0 .. Size - 1) \X (0 .. Size - 1)

----------------------------------------------------------------------------
(* dict operations *)

Empty == [c \in {} |-> T]

\* d[key] = value
Put(d, key, value) ==
  [c \in (DOMAIN d) \cup {key} |-> IF c = key THEN value ELSE d[c]]

\* d.update(e)
UpdateRev(d, e) ==
  [c \in (DOMAIN d) \cup (DOMAIN e) |-> IF c \in DOMAIN d THEN d[c] ELSE e[c]]

Update(d, e) ==
  [c \in (DOMAIN d) \cup (DOMAIN e) |-> IF c \in DOMAIN e THEN e[c] ELSE d[c]]

Min(a, b) == IF a < b THEN a ELSE b

Max(a, b) == IF a > b THEN a ELSE b

Abs(a) == IF a < 0 THEN -a ELSE a

----------------------------------------------------------------------------
(* make_sprite *)

\* Image.new('RGBA', (32, 32), T), then putpixel for every item of the
\* dict whose key is within bounds; the keys of a dict are distinct, so
\* each cell is written at most once
MakeSpriteUnguarded(pixels_map) ==
  [c \in Canvas \cup DOMAIN pixels_map |->
     IF c \in DOMAIN pixels_map THEN pixels_map[c] ELSE T]

MakeSprite(pixels_map) ==
  [c \in Canvas |->
     IF c \in DOMAIN pixels_map /\ InBounds(c) THEN pixels_map[c] ELSE T]

----------------------------------------------------------------------------
(* draw_outline *)

DirsDiag ==
  << <<-1, 0>>, <<1, 0>>, <<0, -1>>, <<0, 1>>,
     <<-1, -1>>, <<1, -1>>, <<-1, 1>>, <<1, 1>> >>

Dirs == << <<-1, 0>>, <<1, 0>>, <<0, -1>>, <<0, 1>> >>

\* lines 55-58 for one member (x, y) of body_pixels, directions d..4
RECURSIVE VisitFrom(_, _, _, _, _)
VisitFrom(o, p, body_pixels, color, d) ==
  IF d > Len(Dirs) THEN o
  ELSE LET n == <<p[1] + Dirs[d][1], p[2] + Dirs[d][2]>>
       IN VisitFrom(IF n \notin body_pixels /\ InBounds(n)
                      THEN Put(o, n, color) ELSE o,
                    p, body_pixels, color, d + 1)

RECURSIVE VisitFromBodyColour(_, _, _, _, _)
VisitFromBodyColour(o, p, body_pixels, color, d) ==
  IF d > Len(Dirs) THEN o
  ELSE LET n == <<p[1] + Dirs[d][1], p[2] + Dirs[d][2]>>
           col == IF p \in DOMAIN o THEN o[p] ELSE color
       IN VisitFromBodyColour(IF n \notin body_pixels /\ InBounds(n)
                                THEN Put(o, n, col) ELSE o,
                              p, body_pixels, color, d + 1)

VisitBodyColour(o, p, body_pixels, color) ==
  VisitFromBodyColour(o, p, body_pixels, color, 1)

Visit(o, p, body_pixels, color) == VisitFrom(o, p, body_pixels, color, 1)

\* draw_outline's loop over the members of rest, taken in one fixed order
RECURSIVE OutlineLoop(_, _, _, _)
OutlineLoop(o, rest, body_pixels, color) ==
  IF rest = {} THEN o
  ELSE LET p == CHOOSE q \in rest : TRUE
       IN OutlineLoop(Visit(o, p, body_pixels, color), rest \ {p},
                      body_pixels, color)

----------------------------------------------------------------------------
(* The shape-fill loops of the eight generators.  One iteration of the     *)
(* innermost loop maps (body, body_set) to a record of the two.            *)

Keep(b, s) == [body |-> b, body_set |-> s]

\* body[c] = col ; body_set.add(c)
PutAdd(b, s, c, col) == [body |-> Put(b, c, col), body_set |-> s \cup {c}]

\* --- nullpointer
NullpointerW(yy) == IF yy < 12 THEN Min((yy - 8) * 2 + 2, 10) ELSE 10

NullpointerColThree(xx, yy) ==
  IF yy < 14 THEN C.purple ELSE IF yy < 18 THEN C.magenta ELSE C.dark_purple

NullpointerCol(xx, yy) == IF yy < 18 THEN C.purple ELSE C.dark_purple

NullpointerIter(xx, yy, b, s) ==
  IF yy >= 22 /\ (xx + yy) % 3 = 0 THEN Keep(b, s)
  ELSE PutAdd(b, s, <<xx, yy>>, NullpointerCol(xx, yy))

\* --- typemismatch
TypemismatchW(yy) ==
  IF yy < 10 THEN Min((yy - 6) * 2 + 4, 14)
  ELSE IF yy < 24 THEN 14
  ELSE Max(14 - (yy - 24) * 3, 4)

TypemismatchCx == 16

TypemismatchCol(xx, yy) ==
  IF xx < TypemismatchCx
    THEN (IF yy % 2 = 0 THEN C.red ELSE C.dark_red)
    ELSE (IF yy % 2 = 0 THEN C.orange ELSE C.yellow)

TypemismatchTargetUnshifted(xx, yy) == <<xx, yy>>

TypemismatchTargetOutward(xx, yy) ==
  IF yy % 5 = 0
    THEN <<xx + (IF xx < TypemismatchCx THEN -1 ELSE 1), yy>>
    ELSE <<xx, yy>>

\* the coordinate written for candidate (x, y): lines 119-125
TypemismatchTarget(xx, yy) ==
  IF yy % 5 = 0
    THEN <<xx + (IF xx < TypemismatchCx THEN 1 ELSE -1), yy>>
    ELSE <<xx, yy>>

TypemismatchIter(xx, yy, b, s) ==
  PutAdd(b, s, TypemismatchTarget(xx, yy), TypemismatchCol(xx, yy))

\* --- offbyone
OffbyoneW(yy) ==
  IF yy < 12 THEN Min((yy - 8) * 2 + 4, 12)
  ELSE IF yy < 22 THEN 12
  ELSE Max(12 - (yy - 22) * 2, 4)

OffbyoneCol(xx, yy) == IF (xx + yy) % 3 # 0 THEN C.green ELSE C.dark_green

OffbyoneIter(xx, yy, b, s) == PutAdd(b, s, <<xx, yy>>, OffbyoneCol(xx, yy))

\* --- stackoverflow_boss: per layer a rectangle loop, then the two
\*     frame-border loops (passes 3j+1, 3j+2, 3j+3 for layer j+1)
Layers ==
  << <<8, 10, 24, 14, C.dark_red>>,
     <<7, 14, 25, 18, C.red>>,
     <<6, 18, 26, 23, C.dark_red>>,
     <<5, 23, 27, 27, C.red>> >>

LayerOf(p) == Layers[((p - 1) \div 3) + 1]

KindOf(p) == (p - 1) % 3

StackoverflowIter(p, xx, yy, b, s) ==
  LET L == LayerOf(p)
  IN CASE KindOf(p) = 0 -> PutAdd(b, s, <<xx, yy>>, L[5])
       [] KindOf(p) = 1 ->
            Keep(Put(Put(b, <<xx, L[2]>>, C.yellow),
                     <<xx, L[4] - 1>>, C.dark_brown), s)
       [] KindOf(p) = 2 ->
            Keep(Put(Put(b, <<L[1], yy>>, C.yellow),
                     <<L[3] - 1, yy>>, C.dark_brown), s)

\* --- racecondition: twin 1 then twin 2
RaceconditionW(p, yy) ==
  IF p = 1 THEN (IF yy < 20 THEN 8 ELSE Max(8 - (yy - 20), 4))
           ELSE (IF yy < 21 THEN 8 ELSE Max(8 - (yy - 21), 4))

RaceconditionCx(p) == IF p = 1 THEN 13 ELSE 19

RaceconditionIter(p, xx, yy, b, s) ==
  IF p = 1 THEN PutAdd(b, s, <<xx, yy>>, C.blue)
  ELSE PutAdd(b, s, <<xx, yy>>,
              IF <<xx, yy>> \in DOMAIN b THEN C.cyan ELSE C.light_blue)

\* --- memoryleak
MemoryleakW(yy) ==
  IF yy < 11 THEN Min((yy - 7) * 3 + 4, 16)
  ELSE IF yy < 20 THEN 16
  ELSE Max(16 - (yy - 20) * 2, 8)

MemoryleakCol(xx, yy) == IF (xx + yy) % 2 = 0 THEN C.green ELSE C.light_green

MemoryleakIter(xx, yy, b, s) == PutAdd(b, s, <<xx, yy>>, MemoryleakCol(xx, yy))

\* --- deadlock
DeadlockW(yy) ==
  IF yy < 13 THEN Min((yy - 9) * 2 + 6, 14)
  ELSE IF yy < 21 THEN 14
  ELSE Max(14 - (yy - 21) * 2, 6)

DeadlockCol(xx, yy) == IF (xx + yy) % 2 = 0 THEN C.gray ELSE C.dark_gray

DeadlockIter(xx, yy, b, s) == PutAdd(b, s, <<xx, yy>>, DeadlockCol(xx, yy))

\* --- heisenbug_boss
colors == <<C.purple, C.blue, C.cyan, C.light_blue, C.magenta>>

HeisenbugW(yy) ==
  IF yy < 10 THEN Min((yy - 5) * 3 + 2, 18)
  ELSE IF yy < 24 THEN 18
  ELSE Max(18 - (yy - 24) * 3, 6)

HeisenbugColFour(xx, yy) == colors[((xx * 3 + yy * 7) % (Len(colors) - 1)) + 1]

HeisenbugCol(xx, yy) == colors[((xx * 3 + yy * 7) % Len(colors)) + 1]

HeisenbugIter(xx, yy, b, s) == PutAdd(b, s, <<xx, yy>>, HeisenbugCol(xx, yy))

----------------------------------------------------------------------------
(* Loop bounds of the fill loops: pass p of generator n runs               *)
(* for y in range(YRange) : for x in range(XRange(y)).                    *)

NPasses(n) ==
  CASE n = "stackoverflow" -> 3 * Len(Layers)
    [] n = "racecondition" -> 2
    [] OTHER -> 1

YRange(n, p) ==
  CASE n = "nullpointer"   -> <<8, 26>>
    [] n = "typemismatch"  -> <<6, 28>>
    [] n = "offbyone"      -> <<8, 26>>
    [] n = "stackoverflow" ->
         IF KindOf(p) = 1 THEN <<LayerOf(p)[2], LayerOf(p)[2] + 1>>
                          ELSE <<LayerOf(p)[2], LayerOf(p)[4]>>
    [] n = "racecondition" -> IF p = 1 THEN <<8, 24>> ELSE <<9, 25>>
    [] n = "memoryleak"    -> <<7, 24>>
    [] n = "deadlock"      -> <<9, 25>>
    [] n = "heisenbug"     -> <<5, 28>>

Span(cx, w) == <<cx - (w \div 2), cx + (w \div 2)>>

XRange(n, p, yy) ==
  CASE n = "nullpointer"   -> Span(16, NullpointerW(yy))
    [] n = "typemismatch"  -> Span(TypemismatchCx, TypemismatchW(yy))
    [] n = "offbyone"      -> Span(15, OffbyoneW(yy))
    [] n = "stackoverflow" ->
         IF KindOf(p) = 2 THEN <<LayerOf(p)[1], LayerOf(p)[1] + 1>>
                          ELSE <<LayerOf(p)[1], LayerOf(p)[3]>>
    [] n = "racecondition" -> Span(RaceconditionCx(p), RaceconditionW(p, yy))
    [] n = "memoryleak"    -> Span(16, MemoryleakW(yy))
    [] n = "deadlock"      -> Span(16, DeadlockW(yy))
    [] n = "heisenbug"     -> Span(16, HeisenbugW(yy))

FillIter(n, p, xx, yy, b, s) ==
  CASE n = "nullpointer"   -> NullpointerIter(xx, yy, b, s)
    [] n = "typemismatch"  -> TypemismatchIter(xx, yy, b, s)
    [] n = "offbyone"      -> OffbyoneIter(xx, yy, b, s)
    [] n = "stackoverflow" -> StackoverflowIter(p, xx, yy, b, s)
    [] n = "racecondition" -> RaceconditionIter(p, xx, yy, b, s)
    [] n = "memoryleak"    -> MemoryleakIter(xx, yy, b, s)
    [] n = "deadlock"      -> DeadlockIter(xx, yy, b, s)
    [] n = "heisenbug"     -> HeisenbugIter(xx, yy, b, s)

----------------------------------------------------------------------------
(* The detail statements that follow the fill loops, in program order.     *)
(* PutOp is  body[(x, y)] = col ;  AddOp is  body_set.add / .update.       *)

PutOp(xx, yy, col) == [put |-> TRUE, at |-> <<xx, yy>>, col |-> col, add |-> {}]

AddOp(S) == [put |-> FALSE, at |-> <<0, 0>>, col |-> T, add |-> S]

RECURSIVE Flatten(_)
Flatten(ss) == IF ss = << >> THEN << >> ELSE Head(ss) \o Flatten(Tail(ss))

\* for x in xs: for y in ys: body[(x, y)] = col
Grid(xs, ys, col) ==
  [j \in 1 .. Len(xs) * Len(ys) |->
     PutOp(xs[((j - 1) \div Len(ys)) + 1], ys[((j - 1) % Len(ys)) + 1], col)]

\* for x in range(lo, hi): body[(x, y)] = col
RowOps(lo, hi, yy, col) == [j \in 1 .. hi - lo |-> PutOp(lo + j - 1, yy, col)]

\* for y in range(lo, hi): body[(x, y)] = col
ColOps(xx, lo, hi, col) == [j \in 1 .. hi - lo |-> PutOp(xx, lo + j - 1, col)]

NullpointerOverlay ==
  Grid(<<13, 14>>, <<14, 15, 16>>, C.dark_bg)
  \o Grid(<<18, 19>>, <<14, 15, 16>>, C.dark_bg)
  \o << PutOp(13, 14, C.light_blue), PutOp(18, 14, C.light_blue),
        PutOp(14, 20, C.magenta), PutOp(16, 20, C.magenta),
        PutOp(18, 20, C.magenta) >>

TypemismatchOverlay ==
  ColOps(16, 8, 26, B)
  \o << PutOp(13, 12, C.white), PutOp(14, 12, C.white),
        PutOp(13, 13, C.red), PutOp(14, 13, C.white),
        PutOp(18, 11, C.yellow), PutOp(19, 12, C.yellow),
        PutOp(18, 13, C.yellow) >>
  \o RowOps(13, 20, 18, C.dark_bg)
  \o << PutOp(14, 17, C.dark_bg), PutOp(18, 17, C.dark_bg) >>

OffbyoneAntenna ==
  << PutOp(14, 7, C.light_green), PutOp(14, 6, C.light_green),
     PutOp(13, 5, C.light_green), PutOp(17, 7, C.light_green),
     PutOp(17, 6, C.light_green), PutOp(18, 5, C.light_green) >>

OffbyoneLegs(dx) ==
  LET lx == 10 + dx * 3
      rx == 19 + dx * 3
  IN << PutOp(lx, 24 + Abs(dx), C.dark_green),
        PutOp(rx, 24 + Abs(dx), C.dark_green),
        PutOp(lx, 25 + Abs(dx), C.dark_green),
        PutOp(rx, 25 + Abs(dx), C.dark_green) >>

OffbyoneTail ==
  Flatten(<<OffbyoneLegs(-1), OffbyoneLegs(0), OffbyoneLegs(1)>>)
  \o << PutOp(15, 19, C.yellow), PutOp(16, 19, C.yellow) >>

OffbyoneEyes ==
  << PutOp(12, 13, C.white), PutOp(13, 13, C.white),
     PutOp(12, 14, C.yellow), PutOp(13, 14, C.white),
     PutOp(17, 12, C.white), PutOp(18, 12, C.white),
     PutOp(17, 13, C.yellow), PutOp(18, 13, C.white) >>

OffbyoneOverlayLevelEyes ==
  OffbyoneAntenna
  \o << PutOp(12, 13, C.white), PutOp(13, 13, C.white),
        PutOp(12, 14, C.yellow), PutOp(13, 14, C.white),
        PutOp(17, 13, C.white), PutOp(18, 13, C.white),
        PutOp(17, 14, C.yellow), PutOp(18, 14, C.white) >>
  \o OffbyoneTail

OffbyoneOverlayAntennaInSet ==
  OffbyoneAntenna
  \o << AddOp({<<14, 7>>, <<14, 6>>, <<13, 5>>, <<17, 7>>, <<17, 6>>, <<18, 5>>}) >>
  \o OffbyoneEyes \o OffbyoneTail

OffbyoneOverlay == OffbyoneAntenna \o OffbyoneEyes \o OffbyoneTail

StackoverflowCrown(xx) == << PutOp(xx, 8, C.yellow), PutOp(xx, 9, C.yellow) >>

StackoverflowEye(xx) == << PutOp(xx, 12, C.yellow), PutOp(xx, 13, C.yellow) >>

StackoverflowOverlay ==
  Flatten(<<StackoverflowCrown(12), StackoverflowCrown(16), StackoverflowCrown(20)>>)
  \o << PutOp(11, 9, C.yellow), PutOp(21, 9, C.yellow),
        AddOp({<<12, 8>>, <<16, 8>>, <<20, 8>>, <<12, 9>>, <<16, 9>>,
               <<20, 9>>, <<11, 9>>, <<21, 9>>}) >>
  \o Flatten(<<StackoverflowEye(12), StackoverflowEye(13),
               StackoverflowEye(19), StackoverflowEye(20)>>)
  \o << PutOp(13, 13, C.dark_bg), PutOp(19, 13, C.dark_bg) >>
  \o RowOps(13, 20, 16, C.dark_bg)
  \o << PutOp(14, 15, C.dark_bg), PutOp(18, 15, C.dark_bg) >>
  \o [j \in 1 .. 6 |-> PutOp(10 + 2 * (j - 1), 25, C.yellow)]

RaceconditionSpeedLine(yy) ==
  << PutOp(7, yy, C.dark_blue), PutOp(6, yy, C.dark_blue),
     PutOp(24, yy + 1, C.dark_blue), PutOp(25, yy + 1, C.dark_blue),
     AddOp({<<7, yy>>, <<6, yy>>, <<24, yy + 1>>, <<25, yy + 1>>}) >>

RaceconditionOverlay ==
  << PutOp(12, 13, C.white), PutOp(13, 13, C.white), PutOp(12, 14, C.dark_bg),
     PutOp(18, 14, C.white), PutOp(19, 14, C.white), PutOp(19, 15, C.dark_bg) >>
  \o Flatten(<<RaceconditionSpeedLine(11), RaceconditionSpeedLine(15),
               RaceconditionSpeedLine(19)>>)

MemoryleakDrip(dx, length) ==
  Flatten([dy1 \in 1 .. length |->
             << PutOp(dx, 24 + dy1 - 1,
                      IF (dy1 - 1) % 2 = 0 THEN C.green ELSE C.dark_green),
                AddOp({<<dx, 24 + dy1 - 1>>}) >>])

MemoryleakOverlay ==
  Flatten(<<MemoryleakDrip(10, 3), MemoryleakDrip(14, 5),
            MemoryleakDrip(18, 4), MemoryleakDrip(22, 2)>>)
  \o << PutOp(12, 13, C.white), PutOp(13, 13, C.white),
        PutOp(12, 14, C.white), PutOp(13, 14, C.dark_bg),
        PutOp(19, 13, C.white), PutOp(20, 13, C.white),
        PutOp(19, 14, C.dark_bg), PutOp(20, 14, C.white),
        PutOp(15, 18, C.dark_green), PutOp(16, 18, C.dark_green),
        PutOp(17, 18, C.dark_green), PutOp(16, 19, C.dark_green),
        PutOp(16, 20, C.dark_green),
        PutOp(22, 9, C.light_green), PutOp(24, 7, C.light_green),
        PutOp(23, 8, C.light_green),
        AddOp({<<22, 9>>, <<24, 7>>, <<23, 8>>}) >>

chain_l == << <<7, 14>>, <<8, 13>>, <<8, 15>>, <<7, 16>>, <<6, 15>>, <<6, 13>> >>

chain_r == << <<25, 14>>, <<24, 13>>, <<24, 15>>, <<25, 16>>, <<26, 15>>, <<26, 13>> >>

\* for x, y in chain: body[(x, y)] = col ; body_set.add((x, y))
PutAddOps(cells, col) ==
  Flatten([j \in 1 .. Len(cells) |->
             << PutOp(cells[j][1], cells[j][2], col), AddOp({cells[j]}) >>])

DeadlockOverlay ==
  PutAddOps(chain_l, C.brown) \o PutAddOps(chain_r, C.brown)
  \o Flatten([j \in 1 .. 5 |->
                << PutOp(13 + j, 16, C.yellow), PutOp(13 + j, 17, C.yellow) >>])
  \o << PutOp(15, 14, C.yellow), PutOp(17, 14, C.yellow),
        PutOp(15, 15, C.yellow), PutOp(17, 15, C.yellow),
        PutOp(16, 17, C.dark_bg),
        PutOp(12, 12, C.red), PutOp(13, 12, C.red),
        PutOp(19, 12, C.red), PutOp(20, 12, C.red) >>
  \o RowOps(13, 20, 19, C.dark_bg)
  \o << PutOp(13, 18, C.dark_bg), PutOp(19, 18, C.dark_bg) >>

HeisenbugCrown(xx) ==
  << PutOp(xx, 4, C.magenta), PutOp(xx, 3, C.magenta),
     AddOp({<<xx, 4>>, <<xx, 3>>}) >>

HeisenbugEye(ex, ey) ==
  << PutOp(ex, ey, C.white), PutOp(ex + 1, ey, C.white),
     PutOp(ex, ey + 1, C.yellow), PutOp(ex + 1, ey + 1, C.white) >>

particles == << <<6, 8>>, <<26, 10>>, <<5, 18>>, <<27, 16>>, <<8, 25>>, <<24, 26>> >>

HeisenbugOverlay ==
  Flatten(<<HeisenbugCrown(11), HeisenbugCrown(14), HeisenbugCrown(16),
            HeisenbugCrown(18), HeisenbugCrown(21)>>)
  \o Flatten(<<HeisenbugEye(11, 13), HeisenbugEye(14, 11),
               HeisenbugEye(18, 11), HeisenbugEye(21, 13)>>)
  \o [j \in 1 .. 11 |->
        PutOp(10 + j, 18 + (IF (10 + j) % 3 = 0 THEN 1 ELSE 0), C.dark_bg)]
  \o PutAddOps(particles, C.light_blue)
  \o << PutOp(16, 21, C.yellow), PutOp(16, 23, C.yellow) >>

OverlayOps(n) ==
  CASE n = "nullpointer"   -> NullpointerOverlay
    [] n = "typemismatch"  -> TypemismatchOverlay
    [] n = "offbyone"      -> OffbyoneOverlay
    [] n = "stackoverflow" -> StackoverflowOverlay
    [] n = "racecondition" -> RaceconditionOverlay
    [] n = "memoryleak"    -> MemoryleakOverlay
    [] n = "deadlock"      -> DeadlockOverlay
    [] n = "heisenbug"     -> HeisenbugOverlay

----------------------------------------------------------------------------
(* The batch of the main block: the eight generators in program order.     *)
(* k is the position in that order; pass, y, x the position in the fill    *)
(* loops; i the next detail statement.  fill and overlay are history       *)
(* variables: the body dict as the fill loops left it, and the detail      *)
(* assignments made after them.                                            *)

Main ==
  << "nullpointer", "typemismatch", "offbyone", "stackoverflow",
     "racecondition", "memoryleak", "deadlock", "heisenbug" >>

Name == IF k = 0 THEN "synthetic" ELSE Main[k]

Init ==
  /\ k = 1
  /\ pc = "fill"
  /\ pass = 1
  /\ y = YRange(Main[1], 1)[1]
  /\ x = XRange(Main[1], 1, YRange(Main[1], 1)[1])[1]
  /\ i = 0
  /\ body = Empty
  /\ body_set = {}
  /\ fill = Empty
  /\ overlay = Empty
  /\ todo = {}
  /\ outlined = Empty
  /\ pixels = Empty
  /\ img = Empty

\* one iteration of the innermost fill loop, and the loop bookkeeping
FillStep ==
  /\ pc = "fill"
  /\ LET n == Main[k]
         r == FillIter(n, pass, x, y, body, body_set)
     IN /\ body' = r.body
        /\ body_set' = r.body_set
        /\ IF x + 1 < XRange(n, pass, y)[2]
             THEN /\ x' = x + 1
                  /\ UNCHANGED <<y, pass, pc, i, fill>>
           ELSE IF y + 1 < YRange(n, pass)[2]
             THEN /\ y' = y + 1
                  /\ x' = XRange(n, pass, y + 1)[1]
                  /\ UNCHANGED <<pass, pc, i, fill>>
           ELSE IF pass < NPasses(n)
             THEN /\ pass' = pass + 1
                  /\ y' = YRange(n, pass + 1)[1]
                  /\ x' = XRange(n, pass + 1, YRange(n, pass + 1)[1])[1]
                  /\ UNCHANGED <<pc, i, fill>>
           ELSE /\ pc' = "overlay"
                /\ i' = 1
                /\ fill' = r.body
                /\ pass' = 0
                /\ y' = 0
                /\ x' = 0
  /\ UNCHANGED <<k, overlay, todo, outlined, pixels, img>>

\* one detail statement
OverlayStep ==
  /\ pc = "overlay"
  /\ LET ops == OverlayOps(Main[k])
         op == ops[i]
     IN /\ body' = IF op.put THEN Put(body, op.at, op.col) ELSE body
        /\ overlay' = IF op.put THEN Put(overlay, op.at, op.col) ELSE overlay
        /\ body_set' = body_set \cup op.add
        /\ IF i < Len(ops)
             THEN i' = i + 1 /\ pc' = pc
             ELSE i' = 0 /\ pc' = "outline"
  /\ UNCHANGED <<k, pass, y, x, fill, todo, outlined, pixels, img>>

\* pixels = draw_outline(body, body_set): outlined = dict(pixels)
OutlineEnter ==
  /\ pc = "outline"
  /\ outlined' = body
  /\ todo' = body_set
  /\ pc' = "visiting"
  /\ UNCHANGED <<k, pass, y, x, i, body, body_set, fill, overlay, pixels, img>>

\* The members the loop of line 54 may take next.  One run of the batch
\* iterates a set in one fixed order; the synthetic cases (k = 0) take the
\* members in every order.
Pick(rest) == IF k = 0 THEN rest ELSE {CHOOSE q \in rest : TRUE}

\* the body of the loop of line 54 for one member
OutlineVisit ==
  /\ pc = "visiting"
  /\ todo # {}
  /\ \E p \in Pick(todo) :
       /\ outlined' = Visit(outlined, p, body_set, B)
       /\ todo' = todo \ {p}
  /\ UNCHANGED <<k, pc, pass, y, x, i, body, body_set, fill, overlay, pixels,
                 img>>

\* return outlined
OutlineReturn ==
  /\ pc = "visiting"
  /\ todo = {}
  /\ pixels' = outlined
  /\ pc' = "update"
  /\ UNCHANGED <<k, pass, y, x, i, body, body_set, fill, overlay, todo,
                 outlined, img>>

\* pixels.update(body)
UpdateStep ==
  /\ pc = "update"
  /\ pixels' = Update(pixels, body)
  /\ pc' = "sprite"
  /\ UNCHANGED <<k, pass, y, x, i, body, body_set, fill, overlay, todo,
                 outlined, img>>

\* make_sprite(pixels, name)
MakeSpriteStep ==
  /\ pc = "sprite"
  /\ img' = MakeSprite(pixels)
  /\ pc' = "saved"
  /\ UNCHANGED <<k, pass, y, x, i, body, body_set, fill, overlay, todo,
                 outlined, pixels>>

\* the generator returns; the next one starts with fresh locals
Return ==
  /\ pc = "saved"
  /\ k > 0
  /\ IF k < Len(Main)
       THEN /\ k' = k + 1
            /\ pc' = "fill"
            /\ pass' = 1
            /\ y' = YRange(Main[k + 1], 1)[1]
            /\ x' = XRange(Main[k + 1], 1, YRange(Main[k + 1], 1)[1])[1]
       ELSE /\ k' = k
            /\ pc' = "done"
            /\ pass' = 0
            /\ y' = 0
            /\ x' = 0
  /\ i' = 0
  /\ body' = Empty
  /\ body_set' = {}
  /\ fill' = Empty
  /\ overlay' = Empty
  /\ todo' = {}
  /\ outlined' = Empty
  /\ pixels' = Empty
  /\ img' = Empty

Next ==
  \/ FillStep
  \/ OverlayStep
  \/ OutlineEnter
  \/ OutlineVisit
  \/ OutlineReturn
  \/ UpdateStep
  \/ MakeSpriteStep
  \/ Return

Spec == Init /\ [][Next]_vars

----------------------------------------------------------------------------
(* The tail of a generator (draw_outline, update, make_sprite) applied to  *)
(* synthetic body dicts and body sets, with draw_outline visiting the      *)
(* members of body_pixels in every order.                                  *)

MaxBody == 3

Block == (5 .. 7) \X (5 .. 7)

Region ==
  Block \cup {<<0, 0>>, <<1, 0>>, <<Size - 1, 0>>, <<0, Size - 1>>,
              <<Size - 1, Size - 1>>}

BodySets ==
  {Block} \cup {S \in SUBSET Region : S # {} /\ Cardinality(S) <= MaxBody}

\* a body dict over S, coloured by the rule of offbyone
BodyMap(S) == [c \in S |-> OffbyoneCol(c[1], c[2])]

Details ==
  [c \in {<<4, 5>>, <<6, 6>>, <<-1, 0>>, <<Size, Size - 1>>, <<0, Size>>,
          <<5, -1>>} |-> IF c[1] < 5 THEN C.yellow ELSE C.white]

PixelMaps(S) == {Empty, BodyMap(S), Update(BodyMap(S), Details)}

InitUnit ==
  /\ k = 0
  /\ pc = "outline"
  /\ pass = 0
  /\ y = 0
  /\ x = 0
  /\ i = 0
  /\ body_set \in BodySets
  /\ body \in PixelMaps(body_set)
  /\ fill = Empty
  /\ overlay = Empty
  /\ todo = {}
  /\ outlined = Empty
  /\ pixels = Empty
  /\ img = Empty

NextUnit ==
  \/ OutlineEnter
  \/ OutlineVisit
  \/ OutlineReturn
  \/ UpdateStep
  \/ MakeSpriteStep

SpecUnit == InitUnit /\ [][NextUnit]_vars

\* the batch together with the synthetic cases
SpecAll == (Init \/ InitUnit) /\ [][Next]_vars

----------------------------------------------------------------------------
(* Properties *)

\* the cells the outline is entitled to: inside the canvas, outside S, and
\* at distance one along an axis from a member of S
Elig(S) ==
  {n \in Canvas :
     /\ n \notin S
     /\ \E b \in S : Abs(n[1] - b[1]) + Abs(n[2] - b[2]) = 1}

\* the colors that occur in d
Range(d) == {d[c] : c \in DOMAIN d}

\* the color d has at c, transparent where it has none
Get(d, c) == IF c \in DOMAIN d THEN d[c] ELSE T

AfterFill == {"overlay", "outline", "visiting", "update", "sprite", "saved"}

AfterOverlay == {"outline", "visiting", "update", "sprite", "saved"}

\* C1: in the final pixel map of each sprite a coordinate that a detail
\* statement assigned has the last detail color; otherwise a coordinate the
\* fill wrote has the fill color; the outline layer shows only at
\* coordinates with neither, namely at the outline cells of body_set.
C1_MergePrecedence ==
  (k > 0 /\ pc = "saved") =>
    \A c \in Canvas \cup DOMAIN pixels :
      IF c \in DOMAIN overlay
        THEN c \in DOMAIN pixels /\ pixels[c] = overlay[c]
      ELSE IF c \in DOMAIN fill
        THEN c \in DOMAIN pixels /\ pixels[c] = fill[c]
      ELSE /\ c \in DOMAIN pixels <=> c \in Elig(body_set)
           /\ c \in DOMAIN pixels => pixels[c] = B

\* an antenna pixel of offbyone sits on an outline cell and keeps its color
C1_Witness ==
  /\ pc = "saved"
  /\ Name = "offbyone"
  /\ <<14, 7>> \in DOMAIN overlay
  /\ <<14, 7>> \in Elig(body_set)
  /\ pixels[<<14, 7>>] = C.light_green

Frame12 ==
  {<<4, 5>>, <<4, 6>>, <<4, 7>>, <<8, 5>>, <<8, 6>>, <<8, 7>>,
   <<5, 4>>, <<6, 4>>, <<7, 4>>, <<5, 8>>, <<6, 8>>, <<7, 8>>}

\* C2: what draw_outline returns has the outline color exactly at the
\* in-bounds orthogonal neighbours of body_pixels that are not members, and
\* is the input dict everywhere else; for the 3x3 block and an empty dict
\* that is the 12 framing cells, without corners and without the block.
C2_OutlineEligibility ==
  (pc = "update") =>
    /\ \A c \in Canvas \cup DOMAIN pixels \cup DOMAIN body :
         IF c \in Elig(body_set)
           THEN c \in DOMAIN pixels /\ pixels[c] = B
           ELSE /\ c \in DOMAIN pixels <=> c \in DOMAIN body
                /\ c \in DOMAIN body => pixels[c] = body[c]
    /\ (body_set = Block /\ body = Empty) =>
         /\ DOMAIN pixels = Frame12
         /\ Cardinality(DOMAIN pixels) = 12
         /\ DOMAIN pixels \cap {<<4, 4>>, <<4, 8>>, <<8, 4>>, <<8, 8>>} = {}
         /\ DOMAIN pixels \cap Block = {}

C2_Witness ==
  /\ pc = "update"
  /\ body_set = Block
  /\ body = Empty
  /\ Cardinality(DOMAIN pixels) = 12

\* the detail coordinates a generator adds to body_set
AddedCells(n) ==
  CASE n = "stackoverflow" ->
         {<<12, 8>>, <<16, 8>>, <<20, 8>>, <<12, 9>>, <<16, 9>>, <<20, 9>>,
          <<11, 9>>, <<21, 9>>}
    [] n = "racecondition" ->
         {6, 7} \X {11, 15, 19} \cup {24, 25} \X {12, 16, 20}
    [] n = "memoryleak" ->
         {10} \X (24 .. 26) \cup {14} \X (24 .. 28) \cup {18} \X (24 .. 27)
         \cup {22} \X (24 .. 25) \cup {<<22, 9>>, <<24, 7>>, <<23, 8>>}
    [] n = "deadlock" ->
         {<<7, 14>>, <<8, 13>>, <<8, 15>>, <<7, 16>>, <<6, 15>>, <<6, 13>>,
          <<25, 14>>, <<24, 13>>, <<24, 15>>, <<25, 16>>, <<26, 15>>,
          <<26, 13>>}
    [] n = "heisenbug" ->
         {11, 14, 16, 18, 21} \X {3, 4}
         \cup {<<6, 8>>, <<26, 10>>, <<5, 18>>, <<27, 16>>, <<8, 25>>,
               <<24, 26>>}
    [] OTHER -> {}

\* C3 as stated: in every generator body_set is the set of coordinates the
\* fill wrote and stays so after the fill.
C3_Original == (k > 0 /\ pc \in AfterFill) => body_set = DOMAIN fill

\* C3 amended: body_set is the fill coordinates plus the detail coordinates
\* the generator adds itself (none in nullpointer, typemismatch, offbyone);
\* no other detail assignment enters it, and the cells draw_outline colors
\* are the outline cells of exactly that set.
C3_Amended ==
  (k > 0 /\ pc \in AfterFill) =>
    /\ DOMAIN fill \subseteq body_set
    /\ body_set \subseteq DOMAIN fill \cup AddedCells(Name)
    /\ pc \in AfterOverlay => body_set = DOMAIN fill \cup AddedCells(Name)
    /\ Name \in {"nullpointer", "typemismatch", "offbyone"} =>
         body_set = DOMAIN fill
    /\ pc = "update" =>
         /\ DOMAIN pixels = DOMAIN body \cup Elig(DOMAIN fill \cup AddedCells(Name))
         /\ \A c \in Elig(DOMAIN fill \cup AddedCells(Name)) : pixels[c] = B

\* a chain link of deadlock is in body_set and the cell left of it is
\* outline, while the eyes are not in body_set beyond the fill
C3_Witness ==
  /\ pc = "update"
  /\ Name = "deadlock"
  /\ <<7, 14>> \in body_set \ DOMAIN fill
  /\ <<6, 14>> \notin DOMAIN body
  /\ pixels[<<6, 14>>] = B

\* C4: the image is 32x32; it holds the color of the pixel map at every
\* canvas cell the map has, transparent elsewhere; entries outside the
\* canvas are dropped and the sprite is still saved.
C4_CanvasBounds ==
  (pc = "saved") =>
    /\ DOMAIN img = Canvas
    /\ \A c \in DOMAIN img : InBounds(c)
    /\ \A c \in Canvas :
         img[c] = IF c \in DOMAIN pixels THEN pixels[c] ELSE T

C4_Witness ==
  /\ pc = "saved"
  /\ \E c \in DOMAIN pixels : ~InBounds(c)
  /\ \E c \in Canvas : c \notin DOMAIN pixels /\ img[c] = T
  /\ img[<<4, 5>>] = C.yellow

Bosses == {"stackoverflow", "heisenbug"}

Regulars ==
  {"nullpointer", "typemismatch", "offbyone", "racecondition", "memoryleak",
   "deadlock"}

\* C5 as stated: both bosses have at least 5 distinct colors in the fill.
C5_Original ==
  (pc = "saved" /\ Name \in Bosses) => Cardinality(Range(fill)) >= 5

\* C5 amended: heisenbug has at least 5 distinct fill colors; stackoverflow
\* has exactly 4 (the two frame colors and the two border colors).
C5_Amended ==
  (pc = "saved") =>
    /\ Name = "heisenbug" => Cardinality(Range(fill)) >= 5
    /\ Name = "stackoverflow" =>
         Range(fill) = {C.dark_red, C.red, C.yellow, C.dark_brown}

C5_Witness ==
  /\ pc = "saved"
  /\ Name = "heisenbug"
  /\ Range(fill) = {C.purple, C.blue, C.cyan, C.light_blue, C.magenta}

\* C6 as stated: every regular generator has at most 2 distinct fill colors.
C6_Original ==
  (pc = "saved" /\ Name \in Regulars) => Cardinality(Range(fill)) <= 2

\* C6 amended: nullpointer, offbyone, memoryleak and deadlock have at most 2
\* distinct fill colors; typemismatch has 4 and racecondition has 3.
C6_Amended ==
  (pc = "saved") =>
    /\ Name \in {"nullpointer", "offbyone", "memoryleak", "deadlock"} =>
         Cardinality(Range(fill)) <= 2
    /\ Name = "typemismatch" =>
         Range(fill) = {C.red, C.dark_red, C.orange, C.yellow}
    /\ Name = "racecondition" =>
         Range(fill) = {C.blue, C.light_blue, C.cyan}

C6_Witness ==
  /\ pc = "saved"
  /\ Name = "deadlock"
  /\ Range(fill) = {C.gray, C.dark_gray}

ShiftedRows == {10, 15, 20, 25}

\* the columns of row yy that the set S has
Cols(S, yy) == {c[1] : c \in {q \in S : q[2] = yy}}

\* C7: in typemismatch an iteration for candidate (x, y) with y mod 5 = 0
\* writes body and body_set at (x+1, y) if x < 16 and at (x-1, y) otherwise
\* and nowhere else, and at (x, y) itself when y mod 5 # 0; after the fill
\* body_set on a shifted row is the image of the row span under the shift,
\* on another row the span itself; the outline is taken around the shifted
\* cells, so the end cells of the unshifted span come out in outline color.
C7_CoordinateShift ==
  /\ [][(pc = "fill" /\ Name = "typemismatch") =>
          LET t == IF y % 5 = 0
                     THEN (IF x < 16 THEN <<x + 1, y>> ELSE <<x - 1, y>>)
                     ELSE <<x, y>>
          IN /\ y % 5 = 0 => t # <<x, y>>
             /\ body_set' = body_set \cup {t}
             /\ DOMAIN body' = DOMAIN body \cup {t}
             /\ \A c \in DOMAIN body : c # t => body'[c] = body[c]]_vars
  /\ []((Name = "typemismatch" /\ pc \in AfterFill) =>
          \A yy \in 6 .. 27 :
            LET lo == 16 - (TypemismatchW(yy) \div 2)
                hi == 16 + (TypemismatchW(yy) \div 2) - 1
            IN IF yy \in ShiftedRows
                 THEN /\ Cols(body_set, yy) =
                           {xx + 1 : xx \in lo .. 15} \cup {xx - 1 : xx \in 16 .. hi}
                      /\ Cols(DOMAIN fill, yy) = Cols(body_set, yy)
                      /\ pc = "saved" =>
                           /\ Get(pixels, <<lo, yy>>) = B
                           /\ Get(pixels, <<hi, yy>>) = B
                 ELSE /\ Cols(body_set, yy) = lo .. hi
                      /\ Cols(DOMAIN fill, yy) = lo .. hi)

\* candidate (9, 10) has been written at (10, 10), not at (9, 10)
C7_Witness ==
  /\ Name = "typemismatch"
  /\ pc = "fill"
  /\ y = 10
  /\ x = 10
  /\ <<10, 10>> \in body_set
  /\ <<9, 10>> \notin body_set
  /\ body[<<10, 10>>] = C.red

\* C8: in the final image of offbyone the eye-colored cells above the index
\* marker are the left cluster, columns 12-13 on rows 13-14, and the right
\* cluster, columns 17-18 on rows 12-13, one row apart, each cell with the
\* eye color it was given.
C8_OffbyoneEyes ==
  (pc = "saved" /\ Name = "offbyone") =>
    LET eyes == {c \in Canvas : c[2] < 19 /\ img[c] \in {C.white, C.yellow}}
        left == {c \in eyes : c[1] < 15}
        right == {c \in eyes : c[1] >= 15}
        Top(S) == CHOOSE r \in {c[2] : c \in S} : \A c \in S : r <= c[2]
    IN /\ left = {12, 13} \X {13, 14}
       /\ right = {17, 18} \X {12, 13}
       /\ Top(left) - Top(right) = 1
       /\ img[<<12, 13>>] = C.white /\ img[<<13, 13>>] = C.white
       /\ img[<<12, 14>>] = C.yellow /\ img[<<13, 14>>] = C.white
       /\ img[<<17, 12>>] = C.white /\ img[<<18, 12>>] = C.white
       /\ img[<<17, 13>>] = C.yellow /\ img[<<18, 13>>] = C.white
       /\ \A c \in left \cup right :
            Get(pixels, c) = img[c] /\ Get(overlay, c) = img[c]

C8_Witness ==
  /\ pc = "saved"
  /\ Name = "offbyone"
  /\ img[<<17, 12>>] = C.white
  /\ img[<<12, 14>>] = C.yellow
  /\ img[<<10, 24>>] = C.dark_green
  /\ img[<<15, 19>>] = C.yellow

\* C9: whatever order draw_outline takes the members of body_pixels in, the
\* image saved for a body dict and body set is the one image obtained by
\* taking them in a fixed order.
C9_Determinism ==
  (k = 0 /\ pc = "saved") =>
    img = MakeSprite(Update(OutlineLoop(body, body_set, body_set, B), body))

\* two members of different color share outline cells
C9_Witness ==
  /\ k = 0
  /\ pc = "saved"
  /\ body_set = {<<5, 5>>, <<6, 6>>, <<0, 0>>}
  /\ body = BodyMap(body_set)
  /\ img[<<5, 6>>] = B
  /\ img[<<6, 5>>] = B
  /\ img[<<5, 5>>] # img[<<6, 6>>]

\* C10: on each shifted row of typemismatch with half width h = w div 2 the
\* fill leaves the right-half color at (15, y) and (16, y), body_set is the
\* span 16-h+1 .. 16+h-2 of 2h-2 cells, and the end cells (16-h, y) and
\* (16+h-1, y) of the unshifted span are not body cells.
C10_ShiftCollisions ==
  (Name = "typemismatch" /\ pc \in AfterFill) =>
    \A yy \in ShiftedRows :
      LET h == TypemismatchW(yy) \div 2
          row == {c \in body_set : c[2] = yy}
          right == IF yy % 2 = 0 THEN C.orange ELSE C.yellow
          left == IF yy % 2 = 0 THEN C.red ELSE C.dark_red
      IN /\ Get(fill, <<15, yy>>) = right
         /\ Get(fill, <<16, yy>>) = right
         /\ Get(fill, <<14, yy>>) = left
         /\ row = ((16 - h + 1) .. (16 + h - 2)) \X {yy}
         /\ Cardinality(row) = 2 * h - 2
         /\ <<16 - h, yy>> \notin body_set
         /\ <<16 + h - 1, yy>> \notin body_set

C10_Witness ==
  /\ Name = "typemismatch"
  /\ pc = "saved"
  /\ Get(fill, <<15, 25>>) = C.yellow
  /\ Get(fill, <<16, 20>>) = C.orange
  /\ <<11, 25>> \notin body_set
  /\ <<20, 25>> \notin body_set

====
